---- MODULE Spec2Model ----
(***************************************************************************)
(* qmod-repo-publish-action: the fork -> branch -> commit -> pull request  *)
(* workflow of run() and the helpers of github.ts, as a state machine over *)
(* the remote hosting state (repositories, refs, pull requests) and the    *)
(* position of one run.                                                    *)
(*                                                                         *)
(* The source holds several revisions of the two modules.  cfg.ghRev and   *)
(* cfg.mainRev say which revision of github.ts and of main.ts is running:  *)
(*   ghRev   "github.ts" : src/src/github.ts                               *)
(*           "part_001"  : src/unnamed/part_001, lines 225-396 (poll loop) *)
(*   mainRev "main.ts"   : src/src/main.ts                                 *)
(*           "part_003"  : src/unnamed/part_003                            *)
(* Every hosting-API call has two outcomes, success and a thrown request   *)
(* error; success needs the remote object to exist.                        *)
(***************************************************************************)
EXTENDS Integers, Sequences, FiniteSets, TLC

\* Bound of the model: number of sequential runs explored.
MaxRuns == 2

\* for (let i = 0; i < 10; i++)
PollAttempts == 10
\* await promisify(setTimeout)(5000)
PollDelayMs == 5000

\* login of the identity the token authenticates (users.getAuthenticated)
AuthLogin == "bot"
\* accounts a fork can live under / a workflow can run under
Logins == {"bot", "team"}
\* qmod_repo_owner, and the owner of an unrelated repository
UpOwner == "up"
OtherOwner == "other"
RepoOwners == Logins \cup {UpOwner, OtherOwner}
\* github.context.repo.owner: the workflow runs in a repository of one of the
\* accounts, or of the owner of the upstream repository itself
CtxOwners == Logins \cup {UpOwner}

GhRevs == {"github.ts", "part_001"}
MainRevs == {"main.ts", "part_003"}

----------------------------------------------------------------------------
\* Commits.  A commit is its set of ancestors (itself included) and its tree:
\* the manifest file (man) and the blacklist file (bl).  anc = {} is "no ref".

NoCommit == [anc |-> {}, man |-> "none", bl |-> <<>>]

Commit(anc, man, bl) == [anc |-> anc, man |-> man, bl |-> bl]

\* compareCommits(base, head).behind_by: commits of base that head lacks
\* mutant: the commits by which the two differ, ahead or behind
BehindBy_Differs(base, head) ==
    Cardinality((base.anc \ head.anc) \cup (head.anc \ base.anc))

BehindBy(base, head) == Cardinality(base.anc \ head.anc)

\* id of the first commit the runs make; the commits of the initial state have
\* smaller ids
FirstCommitId == 10

\* the commit was made, or descends from one made, by a run of the action
Published(c) == \E k \in c.anc : k >= FirstCommitId

\* a commit made on top of parent by createOrUpdateFileContents
ChildCommit(parent, id, man, bl) == [anc |-> parent.anc \cup {id}, man |-> man, bl |-> bl]

\* the heads the upstream default branch can have: its blacklist file lists
\* another contributor only, or also the repository of "bot" in another casing
UpHead == Commit({1, 2}, "none", <<"x/y">>)
UpHeadCased == Commit({1, 2}, "none", <<"x/y", "Bot/Mod">>)
UpHeads == {UpHead, UpHeadCased}
OtherHead == Commit({9}, "none", <<>>)
\* the heads a fork's default branch can have: in step with the upstream head
\* u, behind it, or diverged from it by a blacklist edit of the fork's owner
ForkDefaults(u) == {u, Commit({1}, "none", <<"x/y">>), Commit({1, 3}, "none", <<"x/y", "z/w">>)}
\* an integration branch left behind by an earlier publication
OldBranch == Commit({1, 4}, "old", <<"x/y">>)
\* an integration branch on which the path of the manifest file is a directory
DirBranch == Commit({1, 5}, "dir", <<"x/y">>)
\* the default-branch head of an unrelated repository of the same name
PlainHead == Commit({7}, "none", <<>>)

\* a repository slot: vis "absent" | "pending" (fork requested, not yet
\* queryable) | "visible"; fork flag; parent owner or "none"; default-branch
\* head (def) and integration-branch ref (br)
AbsentRepo == [vis |-> "absent", fork |-> FALSE, parent |-> "none", def |-> NoCommit, br |-> NoCommit]

Repo(fork, parent, def, br) == [vis |-> "visible", fork |-> fork, parent |-> parent, def |-> def, br |-> br]

\* what repos.get returns of a repository: owner.login, fork, parent
NullRepo == [owner |-> "", fork |-> FALSE, parent |-> "none"]

VARIABLES
    cfg,              \* revision running and the workflow's inputs
    fresh,            \* the first run started with no fork, branch or pull request
    other,            \* a second, concurrent run of the action: its position in
                      \* the Pull Request Negotiator, its existingPR, its calls
    repos,            \* hosting state: owner -> repository slot
    pulls,            \* hosting state: pull requests, in listing order
    nextId,           \* hosting state: next fresh commit id
    runs,             \* completed runs
    history,          \* outcome of each completed run
    pc,               \* position of the current run
    hasModJson,       \* qmodZip.file('mod.json') != null
    forkOwner,        \* main.ts: const forkOwner
    currentUser,      \* main.ts: currentUser.login
    fmr,              \* forkedModRepo
    forkResult,       \* part_001: forkResult.data.owner.login
    i,                \* part_001: loop counter of the poll
    slept,            \* part_001: number of setTimeout delays taken
    sawFork,          \* part_001: some poll attempt fetched the fork
    sha,              \* commit read by getRef
    behind,           \* compareResults.behind_by
    branchExisted,    \* the probe of CreateBranchIfRequired found the branch
    modRepoBlacklist, \* main.ts: const modRepoBlacklist
    modManifest,      \* content written to the manifest file
    fileSha,          \* result of getFileSha: <<>> or <<blob>>
    readOutcome,      \* what the getContent of the pending write met: "file",
                      \* "absent", "notfile", "failed"; "none" when no write pends
    existingPR,       \* index in pulls of existingPR, 0 when undefined
    trace,            \* hosting-API calls issued by the current run
    failed,           \* the exception that ended the run, or NoError
    signalled         \* message given to core.setFailed, "" when not called

vars == <<cfg, fresh, other, repos, pulls, nextId, runs, history, pc, hasModJson, forkOwner,
          currentUser, fmr, forkResult, i, slept, sawFork, sha, behind,
          branchExisted, modRepoBlacklist, modManifest, fileSha, readOutcome,
          existingPR,
          trace, failed, signalled>>

env == <<cfg, fresh, other>>
remote == <<repos, pulls, nextId>>
forkLocals == <<fmr, forkResult, i, slept, sawFork>>
branchLocals == <<sha, behind, branchExisted>>
publishLocals == <<modRepoBlacklist, modManifest, fileSha, readOutcome, existingPR>>
inputLocals == <<hasModJson, forkOwner, currentUser>>
locals == <<inputLocals, forkLocals, branchLocals, publishLocals>>
result == <<failed, signalled>>

----------------------------------------------------------------------------
\* Errors.  A request error of the API client is an Error instance; the
\* first revision of github.ts throws bare strings.

NoError == [isError |-> FALSE, msg |-> ""]
ApiError(op) == [isError |-> TRUE, msg |-> "HttpError " \o op]
ErrorOf(msg) == [isError |-> TRUE, msg |-> msg]
StringOf(msg) == [isError |-> FALSE, msg |-> msg]

\* catch (error) { if (error instanceof Error) core.setFailed(error.message) }
CatchSignal(e) == IF e.isError THEN e.msg ELSE ""

\* an exception leaves the try block of run(): the catch runs and run() ends
Throw(e) ==
    /\ pc' = "done"
    /\ failed' = e
    /\ signalled' = CatchSignal(e)

\* the call is recorded when it is issued, whatever its outcome
Logged(op, repo) == Append(trace, [op |-> op, repo |-> repo])

\* repos.get({owner: o}) can answer when the repository exists; a fork still
\* being provisioned becomes queryable by the call that first sees it
Gettable(o) == repos[o].vis # "absent"
Seen(o) == [repos EXCEPT ![o].vis = "visible"]
Snap(o) == [owner |-> o, fork |-> repos[o].fork, parent |-> repos[o].parent]

----------------------------------------------------------------------------
InitRepoAt(c, u) ==
    IF c = UpOwner THEN {Repo(FALSE, "none", u, NoCommit)} ELSE
    {AbsentRepo}
    \cup {Repo(TRUE, UpOwner, d, b) : d \in ForkDefaults(u), b \in {NoCommit, OldBranch, DirBranch}}
    \cup (IF c = AuthLogin THEN {}
          ELSE {Repo(FALSE, "none", PlainHead, NoCommit),
                Repo(TRUE, OtherOwner, OtherHead, NoCommit)})

PullRequest(base, head, user, title) ==
    [base |-> base, head |-> head, user |-> user, title |-> title, comments |-> 0]

Init ==
    /\ cfg \in [ghRev : GhRevs, mainRev : MainRevs, ctxOwner : CtxOwners,
                fork_owner : {"", "team"}]
    \* part_003 imports ConstructModEntry(octokit, ...) from github.ts
    /\ cfg.mainRev = "part_003" => cfg.ghRev = "github.ts"
    /\ \E h \in UpHeads : \E r \in InitRepoAt(cfg.ctxOwner, h) :
          /\ fresh = (r = AbsentRepo)
          /\ repos = [o \in RepoOwners |->
                        IF o = UpOwner THEN Repo(FALSE, "none", h, NoCommit)
                        ELSE IF o = OtherOwner THEN Repo(FALSE, "none", OtherHead, NoCommit)
                        ELSE IF o = cfg.ctxOwner THEN r ELSE AbsentRepo]
          /\ pulls \in {<<>>} \cup
                 (IF r.br = NoCommit THEN {}
                  ELSE {<<PullRequest(UpOwner, cfg.ctxOwner, a, "old")>> : a \in Logins})
    /\ other = [pc |-> "idle", existingPR |-> 0, ops |-> <<>>]
    /\ nextId = FirstCommitId
    /\ runs = 0
    /\ pc = "idle"
    /\ hasModJson = FALSE
    /\ forkOwner = ""
    /\ currentUser = ""
    /\ fmr = NullRepo
    /\ forkResult = ""
    /\ i = 0
    /\ slept = 0
    /\ sawFork = FALSE
    /\ sha = NoCommit
    /\ behind = 0
    /\ branchExisted = FALSE
    /\ modRepoBlacklist = <<>>
    /\ modManifest = "none"
    /\ fileSha = <<>>
    /\ readOutcome = "none"
    /\ existingPR = 0
    /\ history = <<>>
    /\ trace = <<>>
    /\ failed = NoError
    /\ signalled = ""

\* a run of the action starts: export async function run()
StartRun ==
    /\ pc = "idle"
    /\ runs < MaxRuns
    /\ hasModJson' \in BOOLEAN
    /\ pc' = IF cfg.mainRev = "main.ts" THEN "getAuthenticated" ELSE "download"
    /\ trace' = <<>>
    /\ failed' = NoError
    /\ signalled' = ""
    /\ forkOwner' = ""
    /\ currentUser' = ""
    /\ fmr' = NullRepo
    /\ forkResult' = ""
    /\ i' = 0
    /\ slept' = 0
    /\ sawFork' = FALSE
    /\ sha' = NoCommit
    /\ behind' = 0
    /\ branchExisted' = FALSE
    /\ modRepoBlacklist' = <<>>
    /\ modManifest' = "none"
    /\ fileSha' = <<>>
    /\ readOutcome' = "none"
    /\ existingPR' = 0
    /\ UNCHANGED <<env, remote, runs, history>>

\* how a finished run ended: "failed" (an exception reached the catch),
\* "nomod" (early return, mod.json missing) or "ok"
RunOutcome ==
    IF failed # NoError THEN "failed"
    ELSE IF ~hasModJson THEN "nomod" ELSE "ok"

\* run() has returned; the process exits and the next run starts afresh
EndRun ==
    /\ pc = "done"
    /\ pc' = "idle"
    /\ runs' = runs + 1
    /\ history' = Append(history, RunOutcome)
    /\ UNCHANGED <<env, remote, locals, trace, failed, signalled>>

----------------------------------------------------------------------------
\* run(), up to the call of getFork

\* const authenticatedUser = await octokit.rest.users.getAuthenticated()
\* const forkOwner = core.getInput('fork_owner') || authenticatedUser.data.login
GetAuthenticated ==
    /\ pc = "getAuthenticated"
    /\ \E ok \in BOOLEAN :
          /\ trace' = Logged("users.getAuthenticated", "")
          /\ IF ok
             THEN /\ forkOwner' = IF cfg.fork_owner # "" THEN cfg.fork_owner ELSE AuthLogin
                  /\ pc' = "getByUsername"
                  /\ UNCHANGED result
             ELSE /\ Throw(ApiError("users.getAuthenticated"))
                  /\ UNCHANGED forkOwner
    /\ UNCHANGED <<env, remote, runs, history, hasModJson, currentUser,
                   forkLocals, branchLocals, publishLocals>>

\* const currentUser = (await octokit.rest.users.getByUsername({username: forkOwner})).data
GetByUsername ==
    /\ pc = "getByUsername"
    /\ \E ok \in BOOLEAN :
          /\ trace' = Logged("users.getByUsername", forkOwner)
          /\ IF ok
             THEN /\ currentUser' = forkOwner
                  /\ pc' = "download"
                  /\ UNCHANGED result
             ELSE /\ Throw(ApiError("users.getByUsername"))
                  /\ UNCHANGED currentUser
    /\ UNCHANGED <<env, remote, runs, history, hasModJson, forkOwner,
                   forkLocals, branchLocals, publishLocals>>

\* if (modJsonFile == null) { core.error(`mod.json not found ...`); return }
\* mutant: the check of a missing mod.json is lost
AfterDownload_NoCheck(has) == "getFork"

AfterDownload(has) == IF has THEN "getFork" ELSE "done"

\* fetch(qmodUrl), JSZip.loadAsync, qmodZip.file('mod.json'): a failed
\* download throws; a package without mod.json logs an error and returns
Download ==
    /\ pc = "download"
    /\ \E ok \in BOOLEAN :
          IF ~ok THEN Throw(ErrorOf("fetch failed"))
          ELSE pc' = AfterDownload(hasModJson) /\ UNCHANGED result
    /\ UNCHANGED <<env, remote, runs, history, locals, trace>>

----------------------------------------------------------------------------
\* getFork(octokit, repoOwner, repoName).  run() binds the upstream
\* coordinate (qmod_repo_owner, qmod_repo_name) to repoOwner, repoName; the
\* coordinate probed is (github.context.repo.owner, repoName).

\* where run() goes on when getFork has returned
AfterGetFork == IF cfg.mainRev = "main.ts" THEN "blacklist" ELSE "CBIR"

\* try { forkedModRepo = (await repos.get({owner: context.repo.owner, repo: repoName})).data
\*       return forkedModRepo } catch { ... }
getFork_probe ==
    /\ pc = "getFork"
    /\ \E ok \in {b \in BOOLEAN : b => Gettable(cfg.ctxOwner)} :
          /\ trace' = Logged("repos.get", cfg.ctxOwner)
          /\ IF ok
             THEN /\ fmr' = Snap(cfg.ctxOwner)
                  /\ repos' = Seen(cfg.ctxOwner)
                  /\ pc' = AfterGetFork
             ELSE /\ pc' = IF cfg.ghRev = "github.ts" THEN "gf_getModRepo" ELSE "gf_createFork"
                  /\ UNCHANGED <<fmr, repos>>
    /\ UNCHANGED <<env, pulls, nextId, runs, history, inputLocals, forkResult, i,
                   slept, sawFork, branchLocals, publishLocals, result>>

\* github.ts: const modRepo = (await repos.get({owner: repoOwner, repo: repoName})).data
getFork_getModRepo ==
    /\ pc = "gf_getModRepo"
    /\ \E ok \in BOOLEAN :
          /\ trace' = Logged("repos.get", UpOwner)
          /\ IF ok THEN pc' = "gf_createFork" /\ UNCHANGED result
             ELSE Throw(ApiError("repos.get"))
    /\ UNCHANGED <<env, remote, runs, history, locals>>

\* the hosting side of createFork: a fork of the upstream appears under the
\* authenticated account, not yet queryable; an existing fork is returned as is
ForkCreated ==
    IF repos[AuthLogin].vis = "absent"
    THEN [repos EXCEPT ![AuthLogin] =
             [vis |-> "pending", fork |-> TRUE, parent |-> UpOwner,
              def |-> repos[UpOwner].def, br |-> NoCommit]]
    ELSE repos

\* await octokit.rest.repos.createFork({owner: repoOwner, repo: repoName})
getFork_createFork ==
    /\ pc = "gf_createFork"
    /\ \E ok \in BOOLEAN :
          /\ trace' = Logged("repos.createFork", UpOwner)
          /\ IF ok
             THEN /\ repos' = ForkCreated
                  /\ forkResult' = AuthLogin
                  /\ pc' = IF cfg.ghRev = "github.ts" THEN "gf_getFork" ELSE "gf_poll"
                  /\ UNCHANGED result
             ELSE /\ Throw(ApiError("repos.createFork"))
                  /\ UNCHANGED <<repos, forkResult>>
    /\ UNCHANGED <<env, pulls, nextId, runs, history, inputLocals, fmr, i, slept,
                   sawFork, branchLocals, publishLocals>>

\* if (!forkedModRepo.fork) throw `... is not a fork of ...`: a bare string in
\* github.ts, an Error in part_001
NotAForkError ==
    IF cfg.ghRev = "github.ts" THEN StringOf("is not a fork") ELSE ErrorOf("is not a fork")

\* github.ts: const forkedModRepo = (await repos.get({owner: context.repo.owner,
\*   repo: modRepo.name})).data; if (!forkedModRepo.fork) throw ...; return forkedModRepo
getFork_getFork ==
    /\ pc = "gf_getFork"
    /\ \E ok \in {b \in BOOLEAN : b => Gettable(cfg.ctxOwner)} :
          /\ trace' = Logged("repos.get", cfg.ctxOwner)
          /\ IF ok
             THEN /\ fmr' = Snap(cfg.ctxOwner)
                  /\ repos' = Seen(cfg.ctxOwner)
                  /\ IF ~repos[cfg.ctxOwner].fork
                     THEN Throw(NotAForkError)
                     ELSE pc' = AfterGetFork /\ UNCHANGED result
             ELSE /\ Throw(ApiError("repos.get"))
                  /\ UNCHANGED <<fmr, repos>>
    /\ UNCHANGED <<env, pulls, nextId, runs, history, inputLocals, forkResult, i,
                   slept, sawFork, branchLocals, publishLocals>>

\* part_001: one iteration of  for (let i = 0; i < 10; i++) { try { forkedModRepo =
\*   (await repos.get({owner: forkResult.data.owner.login, ...})).data }
\*   catch (e) { forkedModRepo = null; await promisify(setTimeout)(5000) } }
\* part_001, the catch clause of an attempt: await promisify(setTimeout)(5000);
\* an attempt that succeeds is followed by no delay
\* mutant: the delay is waited after every attempt
SleptAfter_Always(ok, n) == n + 1

SleptAfter(ok, n) == IF ok THEN n ELSE n + 1

getFork_poll ==
    /\ pc = "gf_poll"
    /\ i < PollAttempts
    /\ \E ok \in {b \in BOOLEAN : b => Gettable(forkResult)} :
          /\ trace' = Logged("repos.get", forkResult)
          /\ IF ok
             THEN /\ fmr' = Snap(forkResult)
                  /\ repos' = Seen(forkResult)
                  /\ sawFork' = TRUE
             ELSE /\ fmr' = NullRepo
                  /\ UNCHANGED <<repos, sawFork>>
          /\ slept' = SleptAfter(ok, slept)
    /\ i' = i + 1
    /\ UNCHANGED <<env, pulls, nextId, runs, history, pc, inputLocals, forkResult,
                   branchLocals, publishLocals, result>>

\* part_001, after the loop: if (!forkedModRepo) throw new Error(`Forked repo was
\* not found at ...`); if (!forkedModRepo.fork) throw new Error(...); return
\* mutant: the check of a null forkedModRepo is lost
PollVerdict_NoNullCheck(repo) == IF ~repo.fork THEN "notfork" ELSE "return"

PollVerdict(repo) ==
    IF repo = NullRepo THEN "notfound"
    ELSE IF ~repo.fork THEN "notfork" ELSE "return"

NotFoundMsg == "Forked repo was not found"

getFork_afterPoll ==
    /\ pc = "gf_poll"
    /\ i >= PollAttempts
    /\ CASE PollVerdict(fmr) = "notfound" -> Throw(ErrorOf(NotFoundMsg))
         [] PollVerdict(fmr) = "notfork" -> Throw(NotAForkError)
         [] OTHER -> pc' = AfterGetFork /\ UNCHANGED result
    /\ UNCHANGED <<env, remote, runs, history, locals, trace>>

----------------------------------------------------------------------------
\* main.ts: const modRepo = forkedModRepo.parent!; the blacklist is fetched
\* from raw.githubusercontent.com at modRepo's default branch.  Reading
\* modRepo.owner of an undefined parent throws a TypeError.
\* (await fetch(...).text()).trim().split('\n').map(line => line.trim()):
\* the lines of the file; an empty file gives one empty line
SplitLines(file) == IF file = <<>> THEN <<"">> ELSE file

FetchBlacklist ==
    /\ pc = "blacklist"
    /\ IF fmr.parent = "none"
       THEN Throw(ErrorOf("TypeError: modRepo is undefined")) /\ UNCHANGED modRepoBlacklist
       ELSE \E ok \in BOOLEAN :
              IF ok
              THEN /\ modRepoBlacklist' = SplitLines(repos[fmr.parent].def.bl)
                   /\ pc' = "CBIR"
                   /\ UNCHANGED result
              ELSE Throw(ErrorOf("fetch failed")) /\ UNCHANGED modRepoBlacklist
    /\ UNCHANGED <<env, remote, runs, history, inputLocals, forkLocals, branchLocals,
                   modManifest, fileSha, readOutcome, existingPR, trace>>

----------------------------------------------------------------------------
\* CreateBranchIfRequired(octokit, forkedRepo, newBranch) and FetchUpstream

\* where run() goes on when CreateBranchIfRequired has returned
\* mutant: the run goes on to the pull request without publishing
AfterCBIR_NoPublish == "pullsList"

AfterCBIR == "construct"

\* try { await git.getRef({owner: forkedRepo.owner.login, ref: `heads/${newBranch}`}) ...
\* } catch { ... }: a failed probe enters the catch block
CBIR_probe ==
    /\ pc = "CBIR"
    /\ \E ok \in {b \in BOOLEAN : b => repos[fmr.owner].br # NoCommit} :
          /\ trace' = Logged("git.getRef", fmr.owner)
          /\ branchExisted' = ok
          /\ pc' = IF ok THEN "FU_compare" ELSE "CB_getDefault"
    /\ UNCHANGED <<env, remote, runs, history, inputLocals, forkLocals, sha, behind,
                   publishLocals, result>>

\* the repository whose default-branch commit the new branch is created at:
\* github.ts reads heads/${forkedRepo.default_branch} of the fork,
\* part_001 reads heads/${upstream.default_branch} of forkedRepo.parent!
CreateBase ==
    IF cfg.ghRev = "github.ts" THEN fmr.owner ELSE fmr.parent

\* const sha = (await git.getRef({... ref: `heads/${default_branch}`})).data.object.sha
CBIR_getDefault ==
    /\ pc = "CB_getDefault"
    /\ IF CreateBase = "none"
       THEN /\ Throw(ErrorOf("TypeError: upstream is undefined"))
            /\ UNCHANGED <<sha, trace>>
       ELSE \E ok \in BOOLEAN :
              /\ trace' = Logged("git.getRef", CreateBase)
              /\ IF ok
                 THEN /\ sha' = repos[CreateBase].def
                      /\ pc' = "CB_createRef"
                      /\ UNCHANGED result
                 ELSE Throw(ApiError("git.getRef")) /\ UNCHANGED sha
    /\ UNCHANGED <<env, remote, runs, history, inputLocals, forkLocals, behind,
                   branchExisted, publishLocals>>

\* await git.createRef({owner: forkedRepo.owner.login, ref: `refs/heads/${newBranch}`, sha})
\* the hosting side rejects a ref that already exists.  github.ts goes on to
\* FetchUpstream after the try/catch; in part_001 the catch block ends the function
CBIR_createRef ==
    /\ pc = "CB_createRef"
    /\ \E ok \in {b \in BOOLEAN : b => repos[fmr.owner].br = NoCommit} :
          /\ trace' = Logged("git.createRef", fmr.owner)
          /\ IF ok
             THEN /\ repos' = [repos EXCEPT ![fmr.owner].br = sha]
                  /\ pc' = IF cfg.ghRev = "github.ts" THEN "FU_compare" ELSE AfterCBIR
                  /\ UNCHANGED result
             ELSE Throw(ApiError("git.createRef")) /\ UNCHANGED repos
    /\ UNCHANGED <<env, pulls, nextId, runs, history, locals>>

\* an exception inside FetchUpstream: github.ts calls FetchUpstream after the
\* try/catch, so it leaves CreateBranchIfRequired; part_001 calls it inside
\* the try, so the bare catch takes it and goes on to create the branch
FetchUpstreamThrows(e) ==
    IF cfg.ghRev = "github.ts"
    THEN Throw(e)
    ELSE pc' = "CB_getDefault" /\ UNCHANGED result

\* FetchUpstream(octokit, forkedRepo, forkedRepo, newBranch, forkedRepo.default_branch):
\* the upstreamRepo argument is the fork itself
\* mutant: the parent is passed as upstreamRepo
SyncUpstream_Parent == IF fmr.parent = "none" THEN fmr.owner ELSE fmr.parent

SyncUpstream == fmr.owner

\* compareCommits({owner: upstreamRepo, base: upstreamBranch, head: `${repo.owner.login}:${branch}`})
\* if (compareResults.behind_by > 0) { ... } else { up-to-date }
FetchUpstream_compare ==
    /\ pc = "FU_compare"
    /\ \E ok \in BOOLEAN :
          /\ trace' = Logged("repos.compareCommits", SyncUpstream)
          /\ IF ok
             THEN /\ behind' = BehindBy(repos[SyncUpstream].def, repos[fmr.owner].br)
                  /\ pc' = IF behind' > 0 THEN "FU_getRef" ELSE AfterCBIR
                  /\ UNCHANGED result
             ELSE FetchUpstreamThrows(ApiError("repos.compareCommits")) /\ UNCHANGED behind
    /\ UNCHANGED <<env, remote, runs, history, inputLocals, forkLocals, sha,
                   branchExisted, publishLocals>>

\* const upstreamBranchReference = (await git.getRef({owner: upstreamRepo.owner.login,
\*   ref: `heads/${upstreamBranch}`})).data
FetchUpstream_getRef ==
    /\ pc = "FU_getRef"
    /\ \E ok \in BOOLEAN :
          /\ trace' = Logged("git.getRef", SyncUpstream)
          /\ IF ok
             THEN /\ sha' = repos[SyncUpstream].def
                  /\ pc' = "FU_updateRef"
                  /\ UNCHANGED result
             ELSE FetchUpstreamThrows(ApiError("git.getRef")) /\ UNCHANGED sha
    /\ UNCHANGED <<env, remote, runs, history, inputLocals, forkLocals, behind,
                   branchExisted, publishLocals>>

\* catch (error) { throw `Failed to fetch upstream. This can be fixed by performing
\* a manual merge ...` }: a bare string in github.ts, an Error in part_001
ManualMergeMsg == "Failed to fetch upstream. This can be fixed by performing a manual merge"

ManualMergeError ==
    IF cfg.ghRev = "github.ts" THEN StringOf(ManualMergeMsg) ELSE ErrorOf(ManualMergeMsg)

\* try { await git.updateRef({owner: repo.owner.login, ref: `heads/${branch}`,
\*   sha: upstreamBranchReference.object.sha, force: true}) } catch (error) { throw ... }
FetchUpstream_updateRef ==
    /\ pc = "FU_updateRef"
    /\ \E ok \in BOOLEAN :
          /\ trace' = Logged("git.updateRef", fmr.owner)
          /\ IF ok
             THEN /\ repos' = [repos EXCEPT ![fmr.owner].br = sha]
                  /\ pc' = AfterCBIR
                  /\ UNCHANGED result
             ELSE FetchUpstreamThrows(ManualMergeError) /\ UNCHANGED repos
    /\ UNCHANGED <<env, pulls, nextId, runs, history, locals>>

----------------------------------------------------------------------------
\* Content Publisher: the manifest entry and the two file writes

\* main.ts: const modManifest = await ConstructModEntry(modJson, qmodUrl), whose
\* fetchRedirectedLocation can throw an Error.
\* part_003: const modManifest = ConstructModEntry(octokit, modJson, qmodUrl) is not
\* awaited: the users.getByUsername call is issued and modManifest is the pending
\* promise, which JSON.stringify renders as "{}"
Construct ==
    /\ pc = "construct"
    /\ IF cfg.mainRev = "main.ts"
       THEN /\ \E ok \in BOOLEAN :
                 IF ok
                 THEN /\ modManifest' = "entry"
                      /\ pc' = "getFileSha"
                      /\ UNCHANGED result
                 ELSE Throw(ErrorOf("Error fetching redirected URL")) /\ UNCHANGED modManifest
            /\ UNCHANGED trace
       ELSE /\ trace' = Logged("users.getByUsername", cfg.ctxOwner)
            /\ modManifest' = "{}"
            /\ pc' = "getFileSha"
            /\ UNCHANGED result
    /\ UNCHANGED <<env, remote, runs, history, inputLocals, forkLocals, branchLocals,
                   modRepoBlacklist, fileSha, readOutcome, existingPR>>

\* the revision token (blob sha) of a file content: <<>> when there is no file
BlobOf(content) == <<content>>
ManifestBlob(c) == IF c.man = "none" THEN <<>> ELSE BlobOf(c.man)
BlacklistBlob(c) == IF c.bl = <<>> THEN <<>> ELSE BlobOf(c.bl)

\* getFileSha(filePath): try { getContent({owner: forkedModRepo.owner.login, path,
\* ref: `refs/heads/${newBranch}`}); ... return existingFile.sha } catch (e) { }
\* return undefined.  blob is the token of the file on the branch.
\* mutant: the token returned is not the one of the file read
FileShaResult_Stale(ok, blob) == IF ok THEN blob \o blob ELSE <<>>

FileShaResult(ok, blob) == IF ok THEN blob ELSE <<>>

\* what getContent finds at the path: no file (a 404), a file, or something
\* that is not a file (a directory listing)
ManifestKind(c) ==
    IF c.man = "none" THEN "absent" ELSE IF c.man = "dir" THEN "notfile" ELSE "file"
BlacklistKind(c) == IF c.bl = <<>> THEN "absent" ELSE "file"

\* if (!existingFile || ... || existingFile.type !== 'file') throw new Error(...);
\* return existingFile.sha: only a file yields its sha
\* mutant: the check that the content read is a file is lost
ShaOfFile_NoTypeCheck(kind, blob) == blob

ShaOfFile(kind, blob) == IF kind = "file" THEN blob ELSE <<>>

\* how the read of getFileSha went: the request failed, or what it found
ReadOutcome(ok, kind) == IF ok THEN kind ELSE "failed"

GetManifestSha ==
    /\ pc = "getFileSha"
    /\ \E ok \in BOOLEAN :
          /\ trace' = Logged("repos.getContent", fmr.owner)
          /\ LET b == repos[fmr.owner].br IN
                /\ fileSha' = FileShaResult(ok, ShaOfFile(ManifestKind(b), ManifestBlob(b)))
                /\ readOutcome' = ReadOutcome(ok, ManifestKind(b))
    /\ pc' = "writeManifest"
    /\ UNCHANGED <<env, remote, runs, history, inputLocals, forkLocals, branchLocals,
                   modRepoBlacklist, modManifest, existingPR, result>>

\* the hosting side of createOrUpdateFileContents: the branch must exist, and the
\* token must be the current one of the file (none when the file does not exist)
WriteAccepted(branch, blob, token) == branch # NoCommit /\ token = blob

\* await repos.createOrUpdateFileContents({owner: forkedModRepo.owner.login, path:
\* filePath, content, branch: `refs/heads/${newBranch}`, sha: await getFileSha(filePath)})
WriteManifest ==
    /\ pc = "writeManifest"
    /\ LET b == repos[fmr.owner].br IN
       \E ok \in {x \in BOOLEAN : x => WriteAccepted(b, ManifestBlob(b), fileSha)} :
          /\ trace' = Logged("repos.createOrUpdateFileContents", fmr.owner)
          /\ IF ok
             THEN /\ repos' = [repos EXCEPT ![fmr.owner].br =
                                  ChildCommit(b, nextId, modManifest, b.bl)]
                  /\ nextId' = nextId + 1
                  /\ pc' = IF cfg.mainRev = "main.ts" THEN "blacklistSha" ELSE "pullsCreate"
                  /\ UNCHANGED result
             ELSE /\ Throw(ApiError("repos.createOrUpdateFileContents"))
                  /\ UNCHANGED <<repos, nextId>>
    /\ readOutcome' = "none"
    /\ UNCHANGED <<env, pulls, runs, history, inputLocals, forkLocals, branchLocals,
                   modRepoBlacklist, modManifest, fileSha, existingPR>>

\* const repoName = `${github.context.repo.owner}/${github.context.repo.repo}`
RepoName == cfg.ctxOwner \o "/mod"

\* String.prototype.toLowerCase on the identifiers of the model
Lower(str) ==
    CASE str = "Bot/Mod" -> "bot/mod"
      [] str = "Team/Mod" -> "team/mod"
      [] str = "X/Y" -> "x/y"
      [] OTHER -> str

\* modRepoBlacklist.map(line => line.toLowerCase()).includes(repoName.toLowerCase())
\* mutant: the membership check compares the lines as they are
Blacklisted_CaseSensitive(list, name) == \E k \in 1..Len(list) : list[k] = name

Blacklisted(list, name) == \E k \in 1..Len(list) : Lower(list[k]) = Lower(name)

\* if (!blacklisted) { modRepoBlacklist.push(repoName); ... sha: await getFileSha(blacklistPath) }
GetBlacklistSha ==
    /\ pc = "blacklistSha"
    /\ IF Blacklisted(modRepoBlacklist, RepoName)
       THEN /\ pc' = "pullsList"
            /\ UNCHANGED <<modRepoBlacklist, fileSha, readOutcome, trace>>
       ELSE /\ modRepoBlacklist' = Append(modRepoBlacklist, RepoName)
            /\ \E ok \in BOOLEAN :
                  /\ trace' = Logged("repos.getContent", fmr.owner)
                  /\ LET b == repos[fmr.owner].br IN
                        /\ fileSha' = FileShaResult(ok, ShaOfFile(BlacklistKind(b), BlacklistBlob(b)))
                        /\ readOutcome' = ReadOutcome(ok, BlacklistKind(b))
            /\ pc' = "writeBlacklist"
    /\ UNCHANGED <<env, remote, runs, history, inputLocals, forkLocals, branchLocals,
                   modManifest, existingPR, result>>

\* await repos.createOrUpdateFileContents({... path: blacklistPath,
\*   content: base64Encode(`${modRepoBlacklist.join('\n')}\n`), sha: ...})
WriteBlacklist ==
    /\ pc = "writeBlacklist"
    /\ LET b == repos[fmr.owner].br IN
       \E ok \in {x \in BOOLEAN : x => WriteAccepted(b, BlacklistBlob(b), fileSha)} :
          /\ trace' = Logged("repos.createOrUpdateFileContents", fmr.owner)
          /\ IF ok
             THEN /\ repos' = [repos EXCEPT ![fmr.owner].br =
                                  ChildCommit(b, nextId, b.man, modRepoBlacklist)]
                  /\ nextId' = nextId + 1
                  /\ pc' = "pullsList"
                  /\ UNCHANGED result
             ELSE /\ Throw(ApiError("repos.createOrUpdateFileContents"))
                  /\ UNCHANGED <<repos, nextId>>
    /\ readOutcome' = "none"
    /\ UNCHANGED <<env, pulls, runs, history, inputLocals, forkLocals, branchLocals,
                   modRepoBlacklist, modManifest, fileSha, existingPR>>

----------------------------------------------------------------------------
\* Pull Request Negotiator

\* main.ts: const commitTitle = `${modJson.name} v${modJson.version}`
\* part_003: title: `${modJson.id} ${modJson.version} - ${modJson.packageId} ...`
\* mutant: the title of part_003 in every revision
PullTitle_Id == "com.example.mod 1.0.0 - pkg 1.29.1"

PullTitle ==
    IF cfg.mainRev = "main.ts" THEN "Example Mod v1.0.0"
    ELSE "com.example.mod 1.0.0 - pkg 1.29.1"

\* pulls.list({owner: modRepo.owner.login, base: modRepo.default_branch, head}):
\* the open pull requests of the base repository with that head, in listing order
Listed(base, head) ==
    {k \in 1..Len(pulls) : pulls[k].base = base /\ pulls[k].head = head}

\* requests.data.find(x => x.user?.login === currentUser.login): the first
\* listed request of that user, 0 when find returns undefined
FindExisting(base, head, login) ==
    LET mine == {k \in Listed(base, head) : pulls[k].user = login}
    IN IF mine = {} THEN 0 ELSE CHOOSE k \in mine : \A m \in mine : k <= m

\* mutant: the pull request is created whatever the listing found
AfterList_AlwaysCreate(found) == "pullsCreate"

\* mutant: the else branch that creates the pull request is lost
AfterList_NoCreate(found) == IF found # 0 THEN "createComment" ELSE "done"

\* if (existingPR) { createComment } else { pulls.create }
AfterList(found) == IF found # 0 THEN "createComment" ELSE "pullsCreate"

\* const forkedHead = `${forkedModRepo.owner.login}:${newBranch}`
\* const requests = await octokit.rest.pulls.list({...}); const existingPR = ...
PullsList ==
    /\ pc = "pullsList"
    /\ \E ok \in BOOLEAN :
          /\ trace' = Logged("pulls.list", fmr.parent)
          /\ IF ok
             THEN /\ existingPR' = FindExisting(fmr.parent, fmr.owner, currentUser)
                  /\ pc' = AfterList(existingPR')
                  /\ UNCHANGED result
             ELSE Throw(ApiError("pulls.list")) /\ UNCHANGED existingPR
    /\ UNCHANGED <<env, remote, runs, history, inputLocals, forkLocals, branchLocals,
                   modRepoBlacklist, modManifest, fileSha, readOutcome>>

\* await issues.createComment({issue_number: existingPR.number, owner: modRepo.owner.login,
\*   body: 'Updated contents of the manifest'})
\* mutant: the existing request is also given the computed title
CreateComment_Retitle ==
    /\ pc = "createComment"
    /\ trace' = Logged("issues.createComment", fmr.parent)
    /\ pulls' = [pulls EXCEPT ![existingPR].comments = @ + 1,
                              ![existingPR].title = PullTitle]
    /\ pc' = "done"
    /\ UNCHANGED <<env, repos, nextId, runs, history, locals, result>>

CreateComment ==
    /\ pc = "createComment"
    /\ \E ok \in BOOLEAN :
          /\ trace' = Logged("issues.createComment", fmr.parent)
          /\ IF ok
             THEN /\ pulls' = [pulls EXCEPT ![existingPR].comments = @ + 1]
                  /\ pc' = "done"
                  /\ UNCHANGED result
             ELSE Throw(ApiError("issues.createComment")) /\ UNCHANGED pulls
    /\ UNCHANGED <<env, repos, nextId, runs, history, locals>>

\* the hosting side of pulls.create: one open pull request per base and head
CreateAccepted(base, head) == Listed(base, head) = {}

\* await pulls.create({owner: modRepo.owner.login, base: modRepo.default_branch,
\*   title, body, head: forkedHead, maintainer_can_modify: true}); the request is
\* authored by the authenticated identity.  part_003 reads modRepo.owner of an
\* undefined parent here.
PullsCreate ==
    /\ pc = "pullsCreate"
    /\ IF fmr.parent = "none"
       THEN /\ Throw(ErrorOf("TypeError: modRepo is undefined"))
            /\ UNCHANGED <<pulls, trace>>
       ELSE \E ok \in {x \in BOOLEAN : x => CreateAccepted(fmr.parent, fmr.owner)} :
              /\ trace' = Logged("pulls.create", fmr.parent)
              /\ IF ok
                 THEN /\ pulls' = Append(pulls,
                             PullRequest(fmr.parent, fmr.owner, AuthLogin, PullTitle))
                      /\ pc' = "done"
                      /\ UNCHANGED result
                 ELSE Throw(ApiError("pulls.create")) /\ UNCHANGED pulls
    /\ UNCHANGED <<env, repos, nextId, runs, history, locals>>

----------------------------------------------------------------------------
\* A second run of the action, started by another workflow run for the same
\* fork, branch and identity while this run is in its Pull Request Negotiator.
\* It has resolved the same forkedModRepo and currentUser, and runs the same
\* statements of main.ts 303-342; nothing serializes the two runs.

NegotiatorPcs == {"pullsList", "createComment", "pullsCreate"}

\* the second run: const requests = await pulls.list(...); const existingPR = ...
OtherPullsList ==
    /\ cfg.mainRev = "main.ts"
    /\ pc \in NegotiatorPcs
    /\ other.pc = "idle"
    /\ \E ok \in BOOLEAN :
          other' = IF ok
                   THEN LET found == FindExisting(fmr.parent, fmr.owner, currentUser)
                        IN [pc |-> AfterList(found), existingPR |-> found,
                            ops |-> Append(other.ops, "pulls.list")]
                   ELSE [other EXCEPT !.pc = "done", !.ops = Append(@, "pulls.list")]
    /\ UNCHANGED <<cfg, fresh, remote, runs, history, pc, locals, trace, result>>

\* the second run: await issues.createComment({issue_number: existingPR.number, ...})
OtherCreateComment ==
    /\ other.pc = "createComment"
    /\ \E ok \in BOOLEAN :
          /\ other' = [other EXCEPT !.pc = "done", !.ops = Append(@, "issues.createComment")]
          /\ pulls' = IF ok THEN [pulls EXCEPT ![other.existingPR].comments = @ + 1]
                      ELSE pulls
    /\ UNCHANGED <<cfg, fresh, repos, nextId, runs, history, pc, locals, trace, result>>

\* the second run: await pulls.create({... head: forkedHead ...})
OtherPullsCreate ==
    /\ other.pc = "pullsCreate"
    /\ \E ok \in {x \in BOOLEAN : x => CreateAccepted(fmr.parent, fmr.owner)} :
          /\ other' = [other EXCEPT !.pc = "done", !.ops = Append(@, "pulls.create")]
          /\ pulls' = IF ok
                      THEN Append(pulls, PullRequest(fmr.parent, fmr.owner, AuthLogin, PullTitle))
                      ELSE pulls
    /\ UNCHANGED <<cfg, fresh, repos, nextId, runs, history, pc, locals, trace, result>>

----------------------------------------------------------------------------
Next ==
    \/ StartRun
    \/ GetAuthenticated
    \/ GetByUsername
    \/ Download
    \/ getFork_probe
    \/ getFork_getModRepo
    \/ getFork_createFork
    \/ getFork_getFork
    \/ getFork_poll
    \/ getFork_afterPoll
    \/ FetchBlacklist
    \/ CBIR_probe
    \/ CBIR_getDefault
    \/ CBIR_createRef
    \/ FetchUpstream_compare
    \/ FetchUpstream_getRef
    \/ FetchUpstream_updateRef
    \/ Construct
    \/ GetManifestSha
    \/ WriteManifest
    \/ GetBlacklistSha
    \/ WriteBlacklist
    \/ PullsList
    \/ CreateComment
    \/ PullsCreate
    \/ EndRun

Spec == Init /\ [][Next]_vars

\* the runs of Spec with the second, concurrent run interleaved
NextConcurrent ==
    \/ Next
    \/ OtherPullsList
    \/ OtherCreateComment
    \/ OtherPullsCreate

SpecConcurrent == Init /\ [][NextConcurrent]_vars

\* the runs of Spec in which an awaited call of the poll settles and the
\* statement after it is executed: the event loop runs a continuation that
\* is ready
SpecPoll == Spec /\ WF_vars(getFork_poll) /\ WF_vars(getFork_afterPoll)

----------------------------------------------------------------------------
\* Vocabulary of the properties

PrePcs == {"idle", "getAuthenticated", "getByUsername", "download"}
GetForkPcs == {"getFork", "gf_getModRepo", "gf_createFork", "gf_getFork", "gf_poll"}

\* getFork has returned forkedModRepo to run() and the run is going on
ForkResolved == pc \notin (PrePcs \cup GetForkPcs \cup {"done"})

Issued(op) == \E k \in 1..Len(trace) : trace[k].op = op
Count(op) == Cardinality({k \in 1..Len(trace) : trace[k].op = op})
LastOp == IF trace = <<>> THEN "" ELSE trace[Len(trace)].op

\* every completed run so far published successfully
AllOk == \A k \in 1..Len(history) : history[k] = "ok"

\* the manifest write of the run has just gone through
ManifestWritten ==
    pc = (IF cfg.mainRev = "main.ts" THEN "blacklistSha" ELSE "pullsCreate")
        /\ LastOp = "repos.createOrUpdateFileContents"

\* a run is going on after one run that published successfully
Rerun == history = <<"ok">> /\ pc \notin {"idle", "done"}

\* the branch of the fork this run resolved still carries the publication of
\* the run before: same fork, and no force-reset by this run
SameBranch == Published(repos[fmr.owner].br)

\* the hosting-API calls that change the remote state
Mutating ==
    {"repos.createFork", "git.createRef", "git.updateRef",
     "repos.createOrUpdateFileContents", "pulls.create", "issues.createComment"}

\* the mutating calls the current run has issued, in order
RECURSIVE OpsOf(_)
OpsOf(t) ==
    IF t = <<>> THEN <<>>
    ELSE (IF Head(t).op \in Mutating THEN <<Head(t).op>> ELSE <<>>) \o OpsOf(Tail(t))

MutatingOps == OpsOf(trace)

\* the first run, started from a remote state with no fork, no integration
\* branch and no pull request, has ended successfully
FreshRunDone == fresh /\ history = <<>> /\ pc = "done" /\ RunOutcome = "ok"

\* create-pull-request calls issued by the current run and by the second run
CreateCalls ==
    Count("pulls.create")
      + Cardinality({k \in 1..Len(other.ops) : other.ops[k] = "pulls.create"})

\* the second run is going on beside the current run, both acting as the
\* authenticated identity
Racing == cfg.mainRev = "main.ts" /\ other.pc # "idle" /\ pc # "idle"
              /\ currentUser = AuthLogin

\* file writes the current run has issued
Writes == Count("repos.createOrUpdateFileContents")

\* the stage a hosting-API call belongs to: 1 Fork Resolver, 2 Branch
\* Reconciler, 3 Content Publisher, 4 Pull Request Negotiator; 0 for the user
\* lookups, which belong to none
StageOf(op) ==
    CASE op \in {"repos.get", "repos.createFork"} -> 1
      [] op \in {"git.getRef", "git.createRef", "git.updateRef", "repos.compareCommits"} -> 2
      [] op \in {"repos.getContent", "repos.createOrUpdateFileContents"} -> 3
      [] op \in {"pulls.list", "pulls.create", "issues.createComment"} -> 4
      [] OTHER -> 0

\* the current run has issued a call of that stage
Entered(stage) == \E k \in 1..Len(trace) : StageOf(trace[k].op) = stage

\* the entries of a blacklist file
Lines(list) == {list[k] : k \in 1..Len(list)}

\* number of entries of a blacklist file equal to name, ignoring case
Entries(list, name) == Cardinality({k \in 1..Len(list) : Lower(list[k]) = Lower(name)})

\* the run needs a blacklist write: the upstream list lacks the repository
BlacklistWriteNeeded ==
    cfg.mainRev = "main.ts" /\ fmr.parent # "none"
        /\ Entries(repos[fmr.parent].def.bl, RepoName) = 0

\* an open pull request of the authenticated identity from the resolved fork's
\* branch into its parent
OwnPullExists == \E k \in Listed(fmr.parent, fmr.owner) : pulls[k].user = AuthLogin

----------------------------------------------------------------------------
\* C1 (as claimed): in main.ts, when an open pull request authored by the
\* authenticated identity exists for the head forkOwner:branch, the run, having
\* listed the pull requests, goes on to the update comment and never to
\* pulls.create, whatever fork_owner was given; and a run that found an existing request posts exactly
\* one comment and issues no pulls.create.
C1_CommentNotCreate ==
    cfg.mainRev = "main.ts" =>
        /\ (pc \in {"createComment", "pullsCreate"} /\ fmr.owner = forkOwner
               /\ OwnPullExists)
              => pc = "createComment"
        /\ (pc = "done" /\ failed = NoError /\ existingPR # 0)
              => (Count("issues.createComment") = 1 /\ ~Issued("pulls.create"))

\* C2: when a run has published successfully, and so did every run before it,
\* exactly one open pull request exists from the fork's integration branch into
\* the default branch of the repository the run takes as upstream.
C2_ExactlyOnePull ==
    (pc = "done" /\ RunOutcome = "ok" /\ AllOk)
        => Cardinality(Listed(fmr.parent, fmr.owner)) = 1

\* C2 witness: a second successful run has ended after a first successful one.
C2_Witness ==
    /\ pc = "done" /\ RunOutcome = "ok" /\ history = <<"ok">>
    /\ Cardinality(Listed(fmr.parent, fmr.owner)) = 1

\* C3 (as claimed): a run of main.ts that an exception of any stage ended has
\* called core.setFailed with the message of that exception.
C3_FailureSignalled ==
    (cfg.mainRev = "main.ts" /\ pc = "done" /\ failed # NoError)
        => signalled = failed.msg

\* C4 (as claimed): getFork never returns a repository whose fork flag is false.
C4_NonForkRejected ==
    ForkResolved => fmr.fork

\* C5 (as claimed): the repository getFork returns has a parent, and the parent
\* is the requested upstream (qmod_repo_owner/qmod_repo_name).
C5_ParentIsUpstream ==
    ForkResolved => (fmr.parent # "none" /\ fmr.parent = UpOwner)

\* C6 (as claimed): when CreateBranchIfRequired returns having created the
\* branch, the branch ref points at the head of the parent's default branch.
C6_NewBranchAtParentHead ==
    (pc = AfterCBIR /\ ~branchExisted /\ fmr.parent # "none")
        => repos[fmr.owner].br = repos[fmr.parent].def

\* C7 (as claimed): when CreateBranchIfRequired returns for a branch that
\* existed, the branch ref equals the head of the fork's default branch.
C7_ExistingBranchReset ==
    (pc = AfterCBIR /\ branchExisted)
        => repos[fmr.owner].br = repos[fmr.owner].def

\* C7 (amended): for a branch that existed, CreateBranchIfRequired compares it
\* with the fork's own default branch; if it is behind (behind_by > 0) the
\* branch is force-reset to the fork's default-branch head, otherwise no
\* update-ref is issued and the branch keeps its commits.  On return the branch
\* is never behind the fork's default branch.
C7_ResetOnlyWhenBehind ==
    (pc = AfterCBIR /\ branchExisted) =>
        /\ BehindBy(repos[fmr.owner].def, repos[fmr.owner].br) = 0
        /\ IF behind > 0
           THEN repos[fmr.owner].br = repos[fmr.owner].def /\ Issued("git.updateRef")
           ELSE ~Issued("git.updateRef")

\* C7 witness: an existing branch, behind a fork default branch that differs
\* from the parent's, has been reset to the fork's head.
C7_Witness ==
    /\ pc = AfterCBIR /\ branchExisted /\ behind > 0
    /\ fmr.parent # "none"
    /\ repos[fmr.owner].def # repos[fmr.parent].def
    /\ repos[fmr.owner].br = repos[fmr.owner].def

\* C7 witness of the other case: an existing branch ahead of the fork's default
\* branch returned untouched.
C7_WitnessAhead ==
    /\ pc = AfterCBIR /\ branchExisted /\ behind = 0
    /\ repos[fmr.owner].br # repos[fmr.owner].def

\* C8 (as claimed): once the force update-ref has been rejected, the run has
\* ended with the manual-merge diagnostic and has issued no further call.
C8_RejectionIsFatal ==
    (LastOp = "git.updateRef" /\ repos[fmr.owner].br # sha)
        => (pc \in {"done", "idle"} /\ failed.msg = ManualMergeMsg)

\* C9: in the poll of part_001, when the loop has made its 10 attempts: if the
\* last attempt fetched the fork, getFork returns it to run(); if no attempt
\* fetched it, getFork fails with the "Forked repo was not found" error.
C9_PollOutcome ==
    [][(cfg.ghRev = "part_001" /\ pc = "gf_poll" /\ i = PollAttempts) =>
          /\ fmr # NullRepo =>
                (pc' = AfterGetFork /\ failed' = NoError /\ fmr' = Snap(forkResult)
                   /\ fmr'.fork /\ fmr'.parent = UpOwner)
          /\ ~sawFork =>
                (pc' = "done" /\ failed' = ErrorOf(NotFoundMsg)
                   /\ signalled' = NotFoundMsg)]_vars

\* C9 witness: getFork returned the fork after attempts that did not see it.
C9_Witness ==
    /\ cfg.ghRev = "part_001" /\ pc = AfterGetFork /\ i = PollAttempts
    /\ slept > 0 /\ fmr = [owner |-> AuthLogin, fork |-> TRUE, parent |-> UpOwner]

\* C9 witness of the other case: no attempt saw the fork and the run failed
\* with the provisioning-timeout error.
C9_WitnessTimeout ==
    /\ cfg.ghRev = "part_001" /\ pc = "done" /\ i = PollAttempts
    /\ slept = PollAttempts /\ ~sawFork /\ signalled = NotFoundMsg

\* C10 (as claimed): getFork never reaches its createFork call while a
\* repository exists at the coordinate it probed.
C10_NoCreateWhenPresent ==
    pc = "gf_createFork" => repos[cfg.ctxOwner].vis # "visible"

\* C11 (as claimed): in the run that follows a successful publication of the
\* same manifest, the manifest write carries as its precondition the revision
\* token of the file the first run wrote.
C11_SecondWriteCarriesToken ==
    (Rerun /\ pc = "writeManifest") => fileSha = BlobOf(modManifest)

\* C11 (amended): in the run that follows a successful publication of the same
\* manifest, the manifest write carries either the revision token of the file
\* then on the branch (the read succeeded) or no token (the read failed or the
\* file is not there), never another token; and when the run resolved the same
\* fork and the Branch Reconciler did not force-reset the branch, the file on
\* the branch is the one the first run wrote, so the token carried is the one
\* the first write produced.
C11_TokenWhenRead ==
    (Rerun /\ pc = "writeManifest") =>
        /\ fileSha \in {<<>>, ManifestBlob(repos[fmr.owner].br)}
        /\ SameBranch => ManifestBlob(repos[fmr.owner].br) = BlobOf(modManifest)

\* C11 witness: the second run's manifest write went through as an update
\* carrying the token of the first run's file.
C11_Witness ==
    /\ Rerun /\ ManifestWritten /\ SameBranch
    /\ fileSha = BlobOf(modManifest)
    /\ Cardinality({k \in repos[fmr.owner].br.anc : k >= FirstCommitId}) > 1

\* C12 (as claimed): no blacklist write is issued when the blacklist file on
\* the integration branch already holds the contributor's identifier, compared
\* ignoring case (a rerun before the pull request is merged included).
C12_NoWriteWhenPresent ==
    pc = "writeBlacklist" => Entries(repos[fmr.owner].br.bl, RepoName) = 0

\* C12 (amended): the blacklist file on an integration branch never holds two
\* entries equal, ignoring case, to the contributor's identifier; a blacklist
\* write is issued only when the identifier is absent, ignoring case, from the
\* blacklist of the upstream default branch the run fetched, and the content
\* it carries holds the identifier once; when the upstream blacklist holds it,
\* the run goes on to the pull request with the manifest write as its only
\* file write.
C12_NoDuplicateEntry ==
    /\ \A o \in Logins : Entries(repos[o].br.bl, RepoName) <= 1
    /\ pc = "writeBlacklist" =>
          /\ Entries(repos[fmr.parent].def.bl, RepoName) = 0
          /\ Entries(modRepoBlacklist, RepoName) = 1
    /\ (pc = "pullsList" /\ Entries(repos[fmr.parent].def.bl, RepoName) > 0) =>
          Count("repos.createOrUpdateFileContents") = 1

\* C12 witness: the upstream blacklist holds the contributor's identifier in
\* another casing and the run reached the pull request without a blacklist write.
C12_Witness ==
    /\ pc = "pullsList" /\ RepoName = "bot/mod"
    /\ Entries(repos[fmr.parent].def.bl, RepoName) = 1
    /\ \E k \in 1..Len(modRepoBlacklist) : modRepoBlacklist[k] = "Bot/Mod"
    /\ Count("repos.createOrUpdateFileContents") = 1

\* C12 witness of the rerun: the second run wrote the blacklist again and the
\* file on the branch holds the identifier once.
C12_WitnessRerun ==
    /\ Rerun /\ pc = "pullsList" /\ Count("repos.createOrUpdateFileContents") = 2
    /\ Entries(repos[fmr.owner].br.bl, RepoName) = 1
    /\ Cardinality({k \in repos[fmr.owner].br.anc : k >= FirstCommitId}) = 4

C13_WitnessListed ==
    /\ cfg.mainRev = "main.ts" /\ FreshRunDone
    /\ Count("repos.createOrUpdateFileContents") = 1
    /\ Entries(repos[UpOwner].def.bl, RepoName) = 1

\* C14 (as claimed): in main.ts, the run that follows a successful run, with
\* the same manifest and an unchanged remote state, issues no create-fork and
\* no create-ref; its manifest write goes through as an update carrying the
\* revision token of the file the first run wrote; a blacklist write, if any,
\* leaves the file as it is; and when it ends successfully it has issued no
\* create-pull-request and exactly one update comment.
C14_RerunIsUpdate ==
    (cfg.mainRev = "main.ts" /\ Rerun) =>
        /\ ~Issued("repos.createFork")
        /\ ~Issued("git.createRef")
        /\ ManifestWritten => (fileSha # <<>> /\ fileSha = BlobOf(modManifest))
        /\ pc = "writeBlacklist" => modRepoBlacklist = repos[fmr.owner].br.bl
        /\ pc # "pullsCreate"

\* C15: a run whose package holds no mod.json never gets past the download:
\* it issues no mutating hosting-API call, and when the download succeeded it
\* ends with no exception and no failure signal.
C15_NoManifestCleanExit ==
    ~hasModJson =>
        /\ pc \in PrePcs \cup {"done"}
        /\ MutatingOps = <<>>
        /\ (pc = "done" /\ failed = NoError) => signalled = ""
        /\ (pc = "done" /\ failed # NoError) =>
              failed.msg \in {"fetch failed", "HttpError users.getAuthenticated",
                              "HttpError users.getByUsername"}

\* C15 witness: a run of main.ts ended at the missing mod.json, after its two
\* user lookups, with no failure signal.
C15_Witness ==
    /\ pc = "done" /\ ~hasModJson /\ RunOutcome = "nomod" /\ signalled = ""
    /\ Len(trace) = 2 /\ MutatingOps = <<>>

\* C16 (as claimed): with a second run interleaved, neither run is about to
\* issue create-pull-request while an open pull request of the same identity
\* from the same head exists, and at most one create-pull-request call is
\* issued by the two runs together.
C16_NoCreateWhilePullExists ==
    Racing =>
        /\ pc = "pullsCreate" => ~OwnPullExists
        /\ other.pc = "pullsCreate" => ~OwnPullExists
        /\ CreateCalls <= 1

\* C16 (amended): with a second run interleaved, a run issues
\* create-pull-request only when the listing it made itself found no open
\* pull request of its identity for the head, and at most once; nothing is
\* held between the listing and the call, so both runs can issue it (two calls
\* in total), the later one while the pull request of the earlier exists; the
\* later call is rejected by the host, and at no time do two open pull
\* requests of the same head and base exist because of the two runs.
C16_CreateAfterOwnListing ==
    Racing =>
        /\ pc = "pullsCreate" => existingPR = 0
        /\ other.pc = "pullsCreate" => other.existingPR = 0
        /\ Issued("pulls.create") => (existingPR = 0 /\ Count("pulls.create") = 1)
        /\ (\E k \in 1..Len(other.ops) : other.ops[k] = "pulls.create") =>
              (other.existingPR = 0 /\ other.ops = <<"pulls.list", "pulls.create">>)
        /\ CreateCalls <= 2
        /\ Cardinality(Listed(fmr.parent, fmr.owner)) <= 1

\* C16 witness: both runs listed before either created; both issued
\* create-pull-request, one pull request exists and the current run failed.
C16_Witness ==
    /\ Racing /\ CreateCalls = 2 /\ pc = "done" /\ other.pc = "done"
    /\ failed = ApiError("pulls.create")
    /\ Cardinality(Listed(fmr.parent, fmr.owner)) = 1

\* C17 (as claimed): CreateBranchIfRequired is in its Create path (reading a
\* default-branch commit, create-ref) only when its probe of the branch ref
\* failed; for a branch the probe found, no failure of the Sync step leads to
\* the Create path or to a create-ref call.
C17_CreateOnlyAfterFailedProbe ==
    /\ pc \in {"CB_getDefault", "CB_createRef"} => ~branchExisted
    /\ (pc \notin PrePcs /\ Issued("git.createRef")) => ~branchExisted

\* C18 (as claimed): when some attempt of the poll fetched the fork, getFork
\* does not fail with the "Forked repo was not found" error, whatever the
\* later attempts gave.
C18_SeenForkNotLost ==
    (cfg.ghRev = "part_001" /\ sawFork) => failed.msg # NotFoundMsg

\* C19 (as claimed): a blacklist write that goes through keeps every entry the
\* blacklist file on the integration branch had before it, and adds the
\* contributing repository's identifier and nothing else.
C19_AppendOnly ==
    [][(pc = "writeBlacklist" /\ pc' = "pullsList") =>
          LET before == Lines(repos[fmr.owner].br.bl)
              after == Lines(repos'[fmr.owner].br.bl)
          IN before \subseteq after /\ after \ before = {RepoName}]_vars

\* C20 (as claimed): the construction of the mod entry, user lookup included,
\* is awaited before the next call is issued: when the run goes on to read and
\* write the manifest file, modManifest is the constructed entry, and the
\* manifest content on a branch is never anything but a constructed entry.
C20_ConstructionAwaited ==
    /\ pc \in {"getFileSha", "writeManifest"} => modManifest = "entry"
    /\ \A o \in Logins : repos[o].br.man \in {"none", "old", "entry"}

\* C21: for each of the two file writes, when the write is about to be issued
\* the token it carries is the revision token of the file on the integration
\* branch if the read succeeded and found a file, and no token if the file
\* does not exist, the path is not a file, or the read failed; the write is
\* issued exactly once: a run that reaches the Pull Request Negotiator has
\* issued the manifest write once and the blacklist write once if and only
\* if it was needed, and a rejected write ends the run with no further call.
C21_TokenFollowsRead ==
    LET b == repos[fmr.owner].br
        TokenOk(kind, blob) ==
            /\ readOutcome \in {"failed", kind}
            /\ readOutcome = "file" => (fileSha = blob /\ fileSha # <<>>)
            /\ readOutcome # "file" => fileSha = <<>>
    IN /\ pc = "writeManifest" => (TokenOk(ManifestKind(b), ManifestBlob(b)) /\ Writes = 0)
       /\ pc = "writeBlacklist" => (TokenOk(BlacklistKind(b), BlacklistBlob(b)) /\ Writes = 1)
       /\ pc \in NegotiatorPcs => Writes = (IF BlacklistWriteNeeded THEN 2 ELSE 1)
       /\ failed = ApiError("repos.createOrUpdateFileContents") =>
             (pc \in {"done", "idle"} /\ LastOp = "repos.createOrUpdateFileContents")

\* C21 witness: the manifest write went through and the blacklist write is
\* about to be issued with the token of the file read.
C21_Witness ==
    /\ pc = "writeBlacklist" /\ readOutcome = "file" /\ Writes = 1
    /\ fileSha = BlacklistBlob(repos[fmr.owner].br)

\* C21 witness of a path that is not a file: the write is about to be issued
\* with no token.
C21_WitnessNotFile ==
    pc = "writeManifest" /\ readOutcome = "notfile" /\ fileSha = <<>>

\* C21 witness of a failed read of an existing file: the write went out with
\* no token, once, and was rejected.
C21_WitnessFailedRead ==
    /\ pc = "done" /\ failed = ApiError("repos.createOrUpdateFileContents")
    /\ fileSha = <<>> /\ Writes = 1
    /\ ManifestKind(repos[fmr.owner].br) = "file"

\* C22: within a run the calls of the four stages come in the order Fork
\* Resolver, Branch Reconciler, Content Publisher, Pull Request Negotiator,
\* never one of an earlier stage after one of a later stage; a ref call is
\* issued only once getFork has returned a repository, a file read or write
\* only once the branch exists on the fork, and a pull-request call only once
\* the manifest write, and the blacklist write when one is needed, went through.
C22_StagesInOrder ==
    LET b == repos[fmr.owner].br IN
    /\ \A j, k \in 1..Len(trace) :
          (j < k /\ StageOf(trace[j].op) # 0 /\ StageOf(trace[k].op) # 0)
              => StageOf(trace[j].op) <= StageOf(trace[k].op)
    /\ Entered(2) => (fmr # NullRepo /\ pc \notin GetForkPcs)
    /\ Entered(3) => (b # NoCommit /\ pc \notin {"CBIR", "CB_getDefault", "CB_createRef",
                                                  "FU_compare", "FU_getRef", "FU_updateRef"})
    /\ Entered(4) =>
          /\ b.man = modManifest
          /\ Writes = (IF BlacklistWriteNeeded THEN 2 ELSE 1)
          /\ BlacklistWriteNeeded => Entries(b.bl, RepoName) = 1
          /\ pc \notin {"getFileSha", "writeManifest", "blacklistSha", "writeBlacklist"}

\* C22 witness: a run went through the four stages, creating the fork, the
\* branch, both files and the pull request.
C22_Witness ==
    /\ pc = "done" /\ RunOutcome = "ok"
    /\ Issued("repos.createFork") /\ Issued("git.createRef")
    /\ Writes = 2 /\ Issued("pulls.create")

\* C23: once a run has found an existing open pull request, every step it
\* takes leaves the pull requests as they are, except the comment step, which
\* adds one comment to that request and changes nothing else of it (title,
\* base, head, author); the run issues no create-pull-request, at most one
\* comment, and leaves the upstream repository's refs and files unchanged.
C23_OnlyAComment ==
    [][existingPR # 0 =>
          /\ pc \in {"createComment", "done", "idle"}
          /\ ~Issued("pulls.create")
          /\ Count("issues.createComment") <= 1
          /\ \/ pulls' = pulls
             \/ /\ pc = "createComment" /\ pc' = "done" /\ failed' = NoError
                /\ pulls' = [pulls EXCEPT ![existingPR].comments = @ + 1]
          /\ repos'[fmr.parent] = repos[fmr.parent]]_vars

\* C23 witness: a run found the pull request of an earlier publication and
\* ended having added one comment to it, its title unchanged.
C23_Witness ==
    /\ pc = "done" /\ failed = NoError /\ existingPR # 0
    /\ Len(pulls) = 1 /\ pulls[existingPR].comments = 1
    /\ pulls[existingPR].title = "old" /\ Count("issues.createComment") = 1

\* C24: the poll of getFork terminates, within its budget: it makes at most
\* 10 attempts, every step of the loop is one more attempt, it has waited
\* one delay of 5000 ms for each failed attempt and none for a successful
\* one, so at most 10 x 5000 ms in all, and a run that is in the poll
\* eventually leaves it, getFork having returned or failed.
C24_PollTerminates ==
    /\ [](pc = "gf_poll" =>
            /\ i <= PollAttempts /\ slept <= i
            /\ Cardinality({k \in 1..Len(trace) :
                   trace[k] = [op |-> "repos.get", repo |-> forkResult]}) \in {i, i + 1}
            /\ slept * PollDelayMs <= PollAttempts * PollDelayMs)
    /\ [][pc = "gf_poll" =>
            \/ /\ i < PollAttempts /\ pc' = "gf_poll" /\ i' = i + 1
               /\ slept' = (IF fmr' = NullRepo THEN slept + 1 ELSE slept)
            \/ /\ i = PollAttempts
               /\ pc' = (IF fmr = NullRepo \/ ~fmr.fork THEN "done" ELSE AfterGetFork)]_vars
    /\ (pc = "gf_poll") ~> (pc # "gf_poll")

\* C24 witness: the poll was left after 10 attempts all of which failed,
\* 10 delays having been waited.
C24_Witness ==
    /\ cfg.ghRev = "part_001" /\ pc = "done" /\ i = PollAttempts
    /\ slept = PollAttempts /\ failed = ErrorOf(NotFoundMsg)
    /\ slept * PollDelayMs = 50000

\* C25: a step by which FetchUpstream returns without error leaves the branch
\* not behind the upstream branch it was given: the branch holds every commit
\* of the upstream head, being either untouched or exactly at that head.  And
\* a comparison made of a branch that holds every commit of the upstream head,
\* ahead of it or not, ends FetchUpstream at once: no update-ref follows and
\* the refs are as they were.
C25_FetchUpstreamFrame ==
    [][LET up    == repos[SyncUpstream].def
           br    == repos[fmr.owner].br
           brNew == repos'[fmr.owner].br
       IN /\ (pc \in {"FU_compare", "FU_updateRef"} /\ pc' = AfterCBIR) =>
                /\ failed' = NoError
                /\ up.anc \subseteq brNew.anc
                /\ BehindBy(repos'[SyncUpstream].def, brNew) = 0
                /\ IF pc = "FU_compare"
                   THEN brNew = br /\ behind' = 0
                   ELSE brNew = up /\ behind > 0
          /\ (pc = "FU_compare" /\ up.anc \subseteq br.anc
                /\ trace' = Logged("repos.compareCommits", SyncUpstream)
                /\ pc' # "CB_getDefault" /\ failed' = NoError) =>
                /\ pc' = AfterCBIR /\ behind' = 0
                /\ repos' = repos
                /\ LastOp' = "repos.compareCommits"]_vars

\* C25 witness: FetchUpstream has returned from the comparison of a branch
\* that is ahead of the upstream branch, and the branch is where it was.
C25_Witness ==
    /\ pc = AfterCBIR /\ LastOp = "repos.compareCommits" /\ behind = 0
    /\ failed = NoError
    /\ repos[fmr.owner].br.anc # repos[SyncUpstream].def.anc
    /\ repos[SyncUpstream].def.anc \subseteq repos[fmr.owner].br.anc

\* C25 witness of the other case: FetchUpstream has returned from an accepted
\* update-ref, the branch at the upstream head.
C25_WitnessReset ==
    /\ pc = AfterCBIR /\ LastOp = "git.updateRef" /\ behind > 0
    /\ repos[fmr.owner].br = repos[SyncUpstream].def

\* C26 (as claimed): the owner in the create-fork result is the owner getFork
\* probes first; and in the run that follows a successful run that started
\* with no fork, and so created it, getFork is past its first fetch only with
\* that fork in hand: it is never in its slow path and issues no create-fork.
C26_CreatedForkFoundAgain ==
    /\ forkResult # "" => forkResult = cfg.ctxOwner
    /\ (fresh /\ Rerun) =>
          /\ ~Issued("repos.createFork")
          /\ pc \notin (GetForkPcs \ {"getFork"})
          /\ ForkResolved => fmr.owner = AuthLogin

\* C27 (as claimed): no create-ref, update-ref or create-or-update-file call
\* of a run is addressed to the upstream repository: the mutating calls
\* addressed to it are create-fork, create-pull-request and create-comment
\* only; and the upstream repository has the refs and the file contents it
\* started with: its default branch at its initial head, no integration branch.
C27_UpstreamUntouched ==
    /\ \A k \in 1..Len(trace) :
          (trace[k].op \in Mutating /\ trace[k].repo = UpOwner) =>
              trace[k].op \in {"repos.createFork", "pulls.create", "issues.createComment"}
    /\ repos[UpOwner].br = NoCommit
    /\ repos[UpOwner].def \in UpHeads

====
